---- MODULE Spec2Model ----
(***************************************************************************)
(* Search strategy layer, search dispatcher and embedding backfill of the  *)
(* an-rest-server backend (api/routes/search.py, api/search_modules.py,    *)
(* crud/crud_search.py), with the create/update path of the CRUD layer     *)
(* (crud/crud.py, crud/crud_base.py) and the start-up normalization of the *)
(* hybrid weights (core/config.py).                                        *)
(*                                                                         *)
(* Optional[T] values of the code are modelled as sets with at most one    *)
(* element ({} is None).  Scores are integers: a text rank is a count of   *)
(* matched lexemes, a cosine similarity is a percentage, hybrid weights    *)
(* are tenths.  Every store execution, provider call and row conversion    *)
(* may raise; which ones do is an input of the request.                    *)
(***************************************************************************)
EXTENDS Integers, Sequences, FiniteSets, TLC

\* ------------------------------------------------------------------ bounds
NumProducts == 3
NumCategories == 2
MaxLimit == 2
MaxBatch == 2
MaxDeletes == 1

\* ------------------------------------------------------- program constants
\* hybrid_search's default weights, in tenths (crud_search.py:70-71)
DefaultTextWeight == 4
DefaultVectorWeight == 6

ProductIds == 1..NumProducts
CategoryIds == 1..NumCategories
\* the background tasks the model follows
Workers == {1, 2}
Vectors == {"v1", "v2"}
NoEmbedding == "null"
Keys == {"k1"}
NoKey == ""
Methods == {"text", "vector", "hybrid"}
Tokens == {"red", "dress", "shoe"}

VARIABLES
    VECTOR_SEARCH_ENABLED,  \* SearchConfig.VECTOR_SEARCH_ENABLED
    OPENAI_API_KEY,         \* SearchConfig.OPENAI_API_KEY ("" when unset)
    products,               \* the products table: id -> [present, embedding]
    lastSearch,             \* the search request being served: inputs, executions, response
    lastAdmin,              \* the admin call handled last and its response
    task,                   \* the process_embeddings_batch invocations
    catalog,                \* the source fields and the search_vector column of products and categories
    crud,                   \* the call of the CRUD layer in progress, with its session
    settings                \* core.config.settings: the hybrid weights and whether initialize() has run

vars == <<VECTOR_SEARCH_ENABLED, OPENAI_API_KEY, products, lastSearch, lastAdmin, task,
         catalog, crud, settings>>

\* ------------------------------------------------------------ store content
\* Columns of a product row that no modelled operation writes.
ProductCategoryId(id) == IF id % 2 = 1 THEN 1 ELSE 2
ProductBrand(id) == IF id % 3 = 2 THEN "zen" ELSE "acme"
ProductPrice(id) == 10 * id
\* search_vector of a row: lexeme -> number of occurrences
ProductSearchVector(id) ==
    [t \in Tokens |->
        CASE t = "red" -> IF id % 4 = 0 THEN 0 ELSE 1 + (id % 2)
          [] t = "dress" -> IF id % 2 = 1 THEN (id + 1) \div 2 ELSE 0
          [] OTHER -> IF id % 2 = 0 THEN 1 ELSE 0]
CategorySearchVector(id) ==
    [t \in Tokens |->
        CASE t = "dress" -> IF id % 2 = 1 THEN 1 ELSE 0
          [] t = "shoe" -> IF id % 2 = 0 THEN 2 ELSE 0
          [] OTHER -> 0]

\* Product has an embedding column, Category has none.
HasEmbeddingField(model) == model = "Product"
Ids(model) == IF model = "Product" THEN {i \in ProductIds : products[i].present} ELSE CategoryIds
SearchVector(model, id) ==
    IF model = "Product" THEN ProductSearchVector(id) ELSE CategorySearchVector(id)

\* ------------------------------------------------------------ query pieces
NoFilters == [category_id |-> {}, brand |-> {}]
NoRange == [min |-> {}, max |-> {}]

\* SearchStrategy._apply_filters: exact-match predicates on fields the model has
ApplyFilters(model, id, filters) ==
    model = "Product" =>
        /\ \A c \in filters.category_id : ProductCategoryId(id) = c
        /\ \A b \in filters.brand : ProductBrand(id) = b

\* SearchStrategy._apply_range_filters: min/max predicates on price
ApplyRangeFilters(model, id, range_filters) ==
    model = "Product" =>
        /\ \A m \in range_filters.min : ProductPrice(id) >= m
        /\ \A m \in range_filters.max : ProductPrice(id) <= m

\* a match on any one of the terms (' | ' instead of ' & ')
TsMatchAny(sv, terms) == \E k \in 1..Len(terms) : sv[terms[k]] > 0
\* a match in which the empty tsquery matches every row
TsMatchVacuous(sv, terms) == \A k \in 1..Len(terms) : sv[terms[k]] > 0
\* search_vector @@ to_tsquery(' & '.join(query.split())): every term present;
\* the empty tsquery matches no row
TsMatch(sv, terms) == Len(terms) > 0 /\ \A k \in 1..Len(terms) : sv[terms[k]] > 0

RECURSIVE SumCounts(_, _, _)
SumCounts(sv, terms, k) == IF k > Len(terms) THEN 0 ELSE sv[terms[k]] + SumCounts(sv, terms, k + 1)
\* ts_rank(search_vector, tsquery), in hundredths
TsRank(sv, terms) == 10 * SumCounts(sv, terms, 1)

\* 1 - (embedding <=> :embedding), in hundredths
Similarity(e, q) == IF e = q THEN 100 ELSE 20

\* ORDER BY relevance DESC: NULL first, then the larger value; rows of equal
\* relevance in primary-key order
Precedes(a, b) ==
    \/ a.isnull /\ ~b.isnull
    \/ a.isnull = b.isnull /\ a.relevance > b.relevance
    \/ a.isnull = b.isnull /\ a.relevance = b.relevance /\ a.id < b.id

RECURSIVE OrderByRelevanceDesc(_)
OrderByRelevanceDesc(rows) ==
    IF rows = {} THEN <<>>
    ELSE LET first == CHOOSE r \in rows : \A o \in rows \ {r} : Precedes(r, o)
         IN <<first>> \o OrderByRelevanceDesc(rows \ {first})

\* .limit(limit)
Limit(seq, limit) == SubSeq(seq, 1, IF limit < Len(seq) THEN limit ELSE Len(seq))

\* the rows of TextSearchStrategy's statement
TextRows(model, query, filters, range_filters, limit) ==
    Limit(OrderByRelevanceDesc(
        {[id |-> i, relevance |-> 10 * TsRank(SearchVector(model, i), query), isnull |-> FALSE] :
            i \in {j \in Ids(model) :
                    /\ TsMatch(SearchVector(model, j), query)
                    /\ ApplyFilters(model, j, filters)
                    /\ ApplyRangeFilters(model, j, range_filters)}}), limit)

\* a vector statement without `embedding IS NOT NULL`
VectorRowsUnfiltered(query_embedding, filters, range_filters, limit) ==
    Limit(OrderByRelevanceDesc(
        {[id |-> i, relevance |-> 10 * Similarity(products[i].embedding, query_embedding),
          isnull |-> FALSE] :
            i \in {j \in Ids("Product") :
                    /\ ApplyFilters("Product", j, filters)
                    /\ ApplyRangeFilters("Product", j, range_filters)}}), limit)
\* the rows of VectorSearchStrategy's statement (Product only)
VectorRows(query_embedding, filters, range_filters, limit) ==
    Limit(OrderByRelevanceDesc(
        {[id |-> i, relevance |-> 10 * Similarity(products[i].embedding, query_embedding),
          isnull |-> FALSE] :
            i \in {j \in Ids("Product") :
                    /\ products[j].embedding # NoEmbedding
                    /\ ApplyFilters("Product", j, filters)
                    /\ ApplyRangeFilters("Product", j, range_filters)}}), limit)

\* the rows of HybridSearchStrategy's statement (Product only); the weighted sum
\* is NULL for a row without embedding
HybridRows(query, query_embedding, text_weight, vector_weight, filters, range_filters, limit) ==
    Limit(OrderByRelevanceDesc(
        {[id |-> i,
          relevance |-> IF products[i].embedding = NoEmbedding THEN 0
                        ELSE text_weight * TsRank(ProductSearchVector(i), query)
                             + vector_weight * Similarity(products[i].embedding, query_embedding),
          isnull |-> products[i].embedding = NoEmbedding] :
            i \in {j \in Ids("Product") :
                    /\ \/ TsMatch(ProductSearchVector(j), query)
                       \/ products[j].embedding # NoEmbedding
                    /\ ApplyFilters("Product", j, filters)
                    /\ ApplyRangeFilters("Product", j, range_filters)}}), limit)

\* _to_schema over the rows: relevance is a required float of the result schema
ToSchemaFails(rows) == \E k \in 1..Len(rows) : rows[k].isnull
ToSchema(rows) == [k \in 1..Len(rows) |-> [id |-> rows[k].id, relevance |-> rows[k].relevance]]

\* --------------------------------------------------- inputs of one request
Queries == {<<>>, <<"red">>, <<"red", "dress">>}
Limits == 0..MaxLimit
\* (category_id, brand) and (min_price, max_price) of search_products
FilterChoices ==
    {<<NoFilters, NoRange>>,
     <<[category_id |-> {1}, brand |-> {}], NoRange>>,
     <<[category_id |-> {}, brand |-> {"acme"}], [min |-> {20}, max |-> {}]>>,
     <<NoFilters, [min |-> {}, max |-> {20}]>>}
\* What the collaborators do during one request: whether the embedding provider
\* answers and with which vector, and whether the k-th statement the request
\* sends to the store executes (a request sends at most three)
MaxExecutions == 3
Environments ==
    [provider : {"ok", "fail"}, vector : Vectors, exec_ok : [1..MaxExecutions -> BOOLEAN]]

\* the same for a provider call made outside a search request
ProviderEnvironments == {e \in Environments : \A k \in 1..MaxExecutions : e.exec_ok[k]}

\* one execution of a strategy's statement, as the store sees it
Execution(strategy, model, query, filters, range_filters, limit, ok) ==
    [strategy |-> strategy, model |-> model, query |-> query, filters |-> filters,
     range_filters |-> range_filters, limit |-> limit, ok |-> ok]

\* the outcome of a call: raised or returned results, with the statements it
\* executed and the provider calls it made, in order
Outcome(raised, results, log, embed) ==
    [raised |-> raised, results |-> results, log |-> log, embed |-> embed]
\* outcome t of a call made after the call with outcome r
After(r, t) == [t EXCEPT !.log = r.log \o @, !.embed = r.embed \o @]

\* ------------------------------------------------------------- strategies
\* TextSearchStrategy.search; n statements were executed before it
TextSearchStrategySearch(model, query, filters, range_filters, limit, env, n) ==
    LET ok == env.exec_ok[n + 1]
        rows == TextRows(model, query, filters, range_filters, limit)
    IN Outcome(~ok, IF ok THEN ToSchema(rows) ELSE <<>>,
               <<Execution("text", model, query, filters, range_filters, limit, ok)>>, <<>>)

\* an embedding generation that calls the provider once per token of the text
GenerateEmbeddingPerToken(text, env) ==
    IF OPENAI_API_KEY = NoKey
    THEN [raised |-> TRUE, vector |-> NoEmbedding, calls |-> <<>>]
    ELSE [raised |-> env.provider # "ok",
          vector |-> IF env.provider = "ok" THEN env.vector ELSE NoEmbedding,
          calls |-> [k \in 1..Len(text) |-> [text |-> <<text[k]>>, ok |-> env.provider = "ok"]]]
\* VectorSearchStrategy.generate_embedding: [raised, vector, calls]
GenerateEmbedding(text, env) ==
    IF OPENAI_API_KEY = NoKey
    THEN [raised |-> TRUE, vector |-> NoEmbedding, calls |-> <<>>]
    ELSE IF env.provider = "ok"
         THEN [raised |-> FALSE, vector |-> env.vector, calls |-> <<[text |-> text, ok |-> TRUE]>>]
         ELSE [raised |-> TRUE, vector |-> NoEmbedding, calls |-> <<[text |-> text, ok |-> FALSE]>>]

\* VectorSearchStrategy.search
VectorSearchStrategySearch(model, query, filters, range_filters, limit, env, n) ==
    IF ~VECTOR_SEARCH_ENABLED THEN Outcome(TRUE, <<>>, <<>>, <<>>)
    ELSE LET e == GenerateEmbedding(query, env)
         IN IF e.raised \/ ~HasEmbeddingField(model) THEN Outcome(TRUE, <<>>, <<>>, e.calls)
            ELSE LET ok == env.exec_ok[n + 1]
                     rows == VectorRows(e.vector, filters, range_filters, limit)
                 IN Outcome(~ok, IF ok THEN ToSchema(rows) ELSE <<>>,
                            <<Execution("vector", model, query, filters, range_filters, limit, ok)>>,
                            e.calls)

\* HybridSearchStrategy.search, the part inside its try block
HybridSearchStrategyTry(model, query, filters, range_filters, limit, text_weight, vector_weight, env, n) ==
    LET e == GenerateEmbedding(query, env)
    IN IF e.raised \/ ~HasEmbeddingField(model) THEN Outcome(TRUE, <<>>, <<>>, e.calls)
       ELSE LET rows == HybridRows(query, e.vector, text_weight, vector_weight,
                                   filters, range_filters, limit)
                ok == env.exec_ok[n + 1] /\ ~ToSchemaFails(rows)
            IN Outcome(~ok, IF ok THEN ToSchema(rows) ELSE <<>>,
                       <<Execution("hybrid", model, query, filters, range_filters, limit,
                                   env.exec_ok[n + 1])>>,
                       e.calls)

\* HybridSearchStrategy.search whose except clause re-raises instead of falling back
HybridSearchStrategyReraise(model, query, filters, range_filters, limit, text_weight, vector_weight, env, n) ==
    IF ~VECTOR_SEARCH_ENABLED
    THEN TextSearchStrategySearch(model, query, filters, range_filters, limit, env, n)
    ELSE HybridSearchStrategyTry(model, query, filters, range_filters, limit,
                                 text_weight, vector_weight, env, n)

\* HybridSearchStrategy.search without its check of VECTOR_SEARCH_ENABLED
HybridSearchStrategyUnchecked(model, query, filters, range_filters, limit, text_weight, vector_weight, env, n) ==
    LET r == HybridSearchStrategyTry(model, query, filters, range_filters, limit,
                                     text_weight, vector_weight, env, n)
    IN IF r.raised
       THEN After(r, TextSearchStrategySearch(model, query, filters, range_filters, limit,
                                              env, n + Len(r.log)))
       ELSE r

\* HybridSearchStrategy.search
HybridSearchStrategySearch(model, query, filters, range_filters, limit, text_weight, vector_weight, env, n) ==
    IF ~VECTOR_SEARCH_ENABLED
    THEN TextSearchStrategySearch(model, query, filters, range_filters, limit, env, n)
    ELSE LET r == HybridSearchStrategyTry(model, query, filters, range_filters, limit,
                                          text_weight, vector_weight, env, n)
         IN IF r.raised
            THEN After(r, TextSearchStrategySearch(model, query, filters, range_filters, limit,
                                                   env, n + Len(r.log)))
            ELSE r

\* ------------------------------------------------------------ SearchableCRUD
\* SearchableCRUD.text_search
TextSearch(model, query, filters, range_filters, limit, env, n) ==
    TextSearchStrategySearch(model, query, filters, range_filters, limit, env, n)

\* SearchableCRUD.vector_search
VectorSearch(model, query, filters, range_filters, limit, env, n) ==
    IF ~VECTOR_SEARCH_ENABLED THEN Outcome(TRUE, <<>>, <<>>, <<>>)
    ELSE VectorSearchStrategySearch(model, query, filters, range_filters, limit, env, n)

\* SearchableCRUD.hybrid_search, with the default weights search() leaves it
HybridSearch(model, query, filters, range_filters, limit, env, n) ==
    HybridSearchStrategySearch(model, query, filters, range_filters, limit,
                               DefaultTextWeight, DefaultVectorWeight, env, n)

\* SearchableCRUD.search whose vector branch has no fallback
SearchVectorNoFallback(model, query, method, filters, range_filters, limit, env) ==
    IF method = "vector"
    THEN VectorSearch(model, query, filters, range_filters, limit, env, 0)
    ELSE IF method = "hybrid"
    THEN LET r == HybridSearch(model, query, filters, range_filters, limit, env, 0)
         IN IF r.raised
            THEN After(r, TextSearch(model, query, filters, range_filters, limit, env, Len(r.log)))
            ELSE r
    ELSE TextSearch(model, query, filters, range_filters, limit, env, 0)

\* SearchableCRUD.search
Search(model, query, method, filters, range_filters, limit, env) ==
    IF method = "vector"
    THEN LET r == VectorSearch(model, query, filters, range_filters, limit, env, 0)
         IN IF r.raised
            THEN After(r, TextSearch(model, query, filters, range_filters, limit, env, Len(r.log)))
            ELSE r
    ELSE IF method = "hybrid"
    THEN LET r == HybridSearch(model, query, filters, range_filters, limit, env, 0)
         IN IF r.raised
            THEN After(r, TextSearch(model, query, filters, range_filters, limit, env, Len(r.log)))
            ELSE r
    ELSE TextSearch(model, query, filters, range_filters, limit, env, 0)

\* CRUDProductSearch.search_products: builds the filters and delegates to search
CrudSearchProducts(query, method, category_id, brand, min_price, max_price, limit, env) ==
    Search("Product", query, method, [category_id |-> category_id, brand |-> brand],
           [min |-> min_price, max |-> max_price], limit, env)

\* CRUDCategorySearch.search_categories: no filters
CrudSearchCategories(query, method, limit, env) ==
    Search("Category", query, method, NoFilters, NoRange, limit, env)

\* ------------------------------------------------------------------ routes
\* what a handler leaves when it ends with HTTPException(status)
HttpError(status, r) ==
    [raised |-> TRUE, status |-> status, results |-> <<>>, total |-> 0, method |-> "",
     log |-> r.log, embed |-> r.embed]
\* SearchResponse(results, total, query, method, execution_time_ms)
SearchResponse(method, r) ==
    [raised |-> FALSE, status |-> 200, results |-> r.results, total |-> Len(r.results),
     method |-> method, log |-> r.log, embed |-> r.embed]
Nothing == Outcome(FALSE, <<>>, <<>>, <<>>)

\* the method check of a search route (a raise inside the handler's try block)
InvalidMethod(method) == method \notin Methods
\* a route that hands the requested method on whatever the configuration
EffectiveMethodNoDowngrade(method) == method
\* the method a route hands to the CRUD layer
EffectiveMethod(method) ==
    IF method \in {"vector", "hybrid"} /\ ~VECTOR_SEARCH_ENABLED THEN "text" ELSE method

\* GET /search/products
SearchProductsRoute(q, method, category_id, brand, min_price, max_price, limit, env) ==
    IF InvalidMethod(method)
    THEN HttpError(500, Nothing) \* HTTPException(400) caught by the except clause below it
    ELSE LET m == EffectiveMethod(method)
             r == CrudSearchProducts(q, m, category_id, brand, min_price, max_price, limit, env)
         IN IF r.raised THEN HttpError(500, r) ELSE SearchResponse(m, r)

\* GET /search/categories
SearchCategoriesRoute(q, method, limit, env) ==
    IF InvalidMethod(method)
    THEN HttpError(500, Nothing)
    ELSE LET m == EffectiveMethod(method)
             r == CrudSearchCategories(q, m, limit, env)
         IN IF r.raised THEN HttpError(500, r) ELSE SearchResponse(m, r)

\* what a caller of the CRUD layer gets back (no HTTP status)
Returned(method, r) ==
    [raised |-> r.raised, status |-> 0, results |-> r.results, total |-> Len(r.results),
     method |-> method, log |-> r.log, embed |-> r.embed]

\* ------------------------------------------------------------ initial state
\* ------------------------------------------------ rows and their search vector
\* A text is a sequence of words, an Optional column a set of at most one text.
Models == {"Product", "Category"}
Titles == {<<"red", "dress">>, <<"the", "shoe">>}
Brands == {<<"acme">>}
StopWords == {"the"}
\* the columns update_search_vector reads, in the order of its f-string
SourceFields(model) ==
    IF model = "Product" THEN <<"title", "description", "brand", "tags">>
    ELSE <<"name", "description">>
RowKeys == ({"Product"} \X ProductIds) \cup ({"Category"} \X CategoryIds)
\* `x or ''`
OrEmpty(x) == IF x = {} THEN <<>> ELSE CHOOSE t \in x : TRUE
RECURSIVE JoinFields(_, _)
JoinFields(fields, names) ==
    IF names = <<>> THEN <<>>
    ELSE OrEmpty(fields[Head(names)]) \o JoinFields(fields, Tail(names))
\* search_text of update_search_vector
SearchText(model, fields) == JoinFields(fields, SourceFields(model))
\* to_tsvector('english', text): the lexemes of the text, stop words dropped
ToTsvector(text) == {text[k] : k \in {j \in 1..Len(text) : text[j] \notin StopWords}}
\* the value the search_vector column should hold for these source fields
Projection(model, fields) == {ToTsvector(SearchText(model, fields))}

\* a row with the given title (name, for a category) and nothing else set
RowOf(model, title, search_vector) ==
    [fields |-> [f \in {SourceFields(model)[k] : k \in 1..Len(SourceFields(model))} |->
                   IF f \in {"title", "name"} THEN {title} ELSE {}],
     search_vector |-> search_vector]
SeedRows ==
    [key \in RowKeys |->
        RowOf(key[1], <<"red", "dress">>, {ToTsvector(<<"red", "dress">>)})]
NoCrud ==
    [op |-> "none", model |-> "", id |-> 0, pending |-> {}, outcome |-> "none",
     closed |-> TRUE]

\* A weight is a fraction [num, den]; the environment gives it in tenths.
Tenths(n) == [num |-> n, den |-> 10]
\* the settings object once the class body has read the environment (config.py:48-49)
LoadedSettings(text_weight, vector_weight) ==
    [state |-> "loaded", hybrid_search_text_weight |-> Tenths(text_weight),
     hybrid_search_vector_weight |-> Tenths(vector_weight)]
\* the settings of a deployment that leaves the weights at their defaults 0.4 and
\* 0.6, after initialize(), which finds their sum 1.0 and changes nothing
DefaultSettings ==
    [LoadedSettings(DefaultTextWeight, DefaultVectorWeight) EXCEPT !.state = "initialized"]

NoSearch ==
    [route |-> "none", q |-> <<>>, method |-> "", filters |-> NoFilters,
     range_filters |-> NoRange, limit |-> 0, enabled |-> FALSE,
     response |-> HttpError(0, Nothing)]
NoAdmin == [call |-> "none", status |-> 0, body |-> [status |-> "", processed |-> 0, total_remaining |-> 0]]
IdleTask ==
    [pc |-> "idle", batch_size |-> 0, product_ids |-> <<>>, i |-> 0, processed_count |-> 0,
     error_count |-> 0, embedding |-> NoEmbedding, events |-> <<>>, outcome |-> "none",
     sessions |-> {}]

\* The configuration comes from the environment, the table from earlier runs.
Init ==
    /\ VECTOR_SEARCH_ENABLED \in BOOLEAN
    /\ OPENAI_API_KEY \in {NoKey} \cup Keys
    /\ products \in [ProductIds -> [present : {TRUE}, embedding : {NoEmbedding, "v1"}]]
    /\ lastSearch = NoSearch
    /\ lastAdmin = NoAdmin
    /\ task = [w \in Workers |-> IdleTask]
    /\ catalog = SeedRows
    /\ crud = NoCrud
    /\ settings = DefaultSettings

\* lastSearch and lastAdmin hold the call being answered; the handlers are
\* atomic, so the next step is taken once the answer has been delivered
Quiet == lastSearch = NoSearch /\ lastAdmin = NoAdmin

\* no answer is being delivered; a status request between its two statements
\* (lastAdmin.status = 0) does not hold back the other clients of the store
StoreQuiet == lastSearch = NoSearch /\ lastAdmin.status = 0

\* ----------------------------------------------------------- search actions
RequestMethods == Methods \cup {"fuzzy"}

\* a handler that switches vector search on when a vector or hybrid request
\* finds it disabled, instead of downgrading the request
SearchProductsEnabling ==
    \E q \in Queries, method \in RequestMethods, fg \in FilterChoices,
       limit \in Limits, env \in Environments :
        /\ Quiet
        /\ lastSearch' =
             [route |-> "products", q |-> q, method |-> method, filters |-> fg[1],
              range_filters |-> fg[2], limit |-> limit, enabled |-> VECTOR_SEARCH_ENABLED,
              response |-> SearchProductsRoute(q, method, fg[1].category_id, fg[1].brand,
                                               fg[2].min, fg[2].max, limit, env)]
        /\ VECTOR_SEARCH_ENABLED' = (VECTOR_SEARCH_ENABLED \/ method \in {"vector", "hybrid"})
        /\ UNCHANGED <<settings, catalog, crud, OPENAI_API_KEY, products, lastAdmin, task>>

SearchProducts ==
    \E q \in Queries, method \in RequestMethods, fg \in FilterChoices,
       limit \in Limits, env \in Environments :
      LET f == fg[1]
          g == fg[2]
      IN
        /\ Quiet
        /\ lastSearch' =
             [route |-> "products", q |-> q, method |-> method, filters |-> f,
              range_filters |-> g, limit |-> limit, enabled |-> VECTOR_SEARCH_ENABLED,
              response |-> SearchProductsRoute(q, method, f.category_id, f.brand, g.min, g.max,
                                               limit, env)]
        /\ UNCHANGED <<settings, catalog, crud, VECTOR_SEARCH_ENABLED, OPENAI_API_KEY, products, lastAdmin, task>>

SearchCategories ==
    \E q \in Queries, method \in RequestMethods, limit \in Limits, env \in Environments :
        /\ Quiet
        /\ lastSearch' =
             [route |-> "categories", q |-> q, method |-> method, filters |-> NoFilters,
              range_filters |-> NoRange, limit |-> limit, enabled |-> VECTOR_SEARCH_ENABLED,
              response |-> SearchCategoriesRoute(q, method, limit, env)]
        /\ UNCHANGED <<settings, catalog, crud, VECTOR_SEARCH_ENABLED, OPENAI_API_KEY, products, lastAdmin, task>>

\* a call of SearchableCRUD.hybrid_search on the product CRUD object
HybridSearchCall ==
    \E q \in Queries, fg \in FilterChoices, limit \in Limits, env \in Environments :
        /\ Quiet
        /\ lastSearch' =
             [route |-> "hybrid_search", q |-> q, method |-> "hybrid", filters |-> fg[1],
              range_filters |-> fg[2], limit |-> limit, enabled |-> VECTOR_SEARCH_ENABLED,
              response |-> Returned("hybrid",
                                    HybridSearch("Product", q, fg[1], fg[2], limit, env, 0))]
        /\ UNCHANGED <<settings, catalog, crud, VECTOR_SEARCH_ENABLED, OPENAI_API_KEY, products, lastAdmin, task>>

\* an enable call that stores the key it is given, also when it is given none
AdminEnableOverwritingKey ==
    \E api_key \in {NoKey} \cup Keys :
        /\ Quiet
        /\ VECTOR_SEARCH_ENABLED' = TRUE
        /\ OPENAI_API_KEY' = api_key
        /\ lastAdmin' = [NoAdmin EXCEPT !.call = "enable", !.status = 200]
        /\ UNCHANGED <<settings, catalog, crud, products, lastSearch, task>>

\* POST /search/admin/enable-vector-search -> crud_search.enable_vector_search
AdminEnableVectorSearch ==
    \E api_key \in {NoKey} \cup Keys :
        /\ Quiet
        /\ VECTOR_SEARCH_ENABLED' = TRUE
        /\ OPENAI_API_KEY' = IF api_key # NoKey THEN api_key ELSE OPENAI_API_KEY
        /\ lastAdmin' = [NoAdmin EXCEPT !.call = "enable", !.status = 200]
        /\ UNCHANGED <<settings, catalog, crud, products, lastSearch, task>>

\* get_db's finally clause: the call is over and its session closed
CloseSearchRequest ==
    /\ lastSearch # NoSearch
    /\ lastSearch' = NoSearch
    /\ UNCHANGED <<settings, catalog, crud, VECTOR_SEARCH_ENABLED, OPENAI_API_KEY, products, lastAdmin, task>>

\* the same for an admin call
CloseAdminRequest ==
    /\ lastAdmin # NoAdmin /\ lastAdmin.status # 0
    /\ lastAdmin' = NoAdmin
    /\ UNCHANGED <<settings, catalog, crud, VECTOR_SEARCH_ENABLED, OPENAI_API_KEY, products, lastSearch, task>>

SearchNext ==
    \/ SearchProducts \/ SearchCategories \/ HybridSearchCall
    \/ CloseSearchRequest \/ AdminEnableVectorSearch \/ CloseAdminRequest

SearchSpec == Init /\ [][SearchNext]_vars

\* ================================================================ backfill
BatchSizes == 1..MaxBatch
\* the products whose embedding is NULL
WithoutEmbedding == {i \in ProductIds : products[i].present /\ products[i].embedding = NoEmbedding}
\* a count without the filter on the embedding column
RecordsCountUnfiltered == Cardinality({i \in ProductIds : products[i].present})
\* get_records_without_embeddings_count
RecordsWithoutEmbeddingsCount == Cardinality(WithoutEmbedding)

\* the sequences of n distinct elements of S
Arrangements(S, n) ==
    {s \in [1..n -> S] : \A a, b \in 1..n : a # b => s[a] # s[b]}
\* a scan without the filter on the embedding column
RecordsUnfiltered(limit) ==
    LET present == {i \in ProductIds : products[i].present}
    IN Arrangements(present, IF limit < Cardinality(present) THEN limit ELSE Cardinality(present))
\* get_records_without_embeddings: up to `limit` rows with a NULL embedding; the
\* statement has no ORDER BY, so which rows and in which order is the store's choice
RecordsWithoutEmbeddings(limit) ==
    Arrangements(WithoutEmbedding,
                 IF limit < RecordsWithoutEmbeddingsCount THEN limit
                 ELSE RecordsWithoutEmbeddingsCount)

\* one thing a batch did to one product: ev is "read" (seen: missing, set, null,
\* or error when the read or the text building raised), "embed" (seen: called
\* for a provider call, nokey when generate_embedding raised before calling) or
\* "write" (the UPDATE and its commit); ok is FALSE when the step raised
Event(ev, id, seen, ok) == [ev |-> ev, id |-> id, seen |-> seen, ok |-> ok]

\* a loop end that starts another batch while products with a NULL embedding
\* remain, which is what the comment at lines 119-123 describes
ContinueChained(t) ==
    IF t.i < Len(t.product_ids)
    THEN [t EXCEPT !.i = @ + 1, !.pc = "read", !.embedding = NoEmbedding]
    ELSE IF RecordsWithoutEmbeddingsCount > 0
         THEN [t EXCEPT !.pc = "scheduled", !.embedding = NoEmbedding]
         ELSE [t EXCEPT !.pc = "done", !.outcome = "returned", !.embedding = NoEmbedding]
\* the end of one pass of the for loop: next product id, or the end of the
\* function. Lines 112-123 (the completion log line and the recount of the
\* remaining products) follow the `continue` of the except clause inside that
\* clause and are never executed: the function ends when the loop does.
Continue(t) ==
    IF t.i < Len(t.product_ids)
    THEN [t EXCEPT !.i = @ + 1, !.pc = "read", !.embedding = NoEmbedding]
    ELSE [t EXCEPT !.pc = "done", !.outcome = "returned", !.embedding = NoEmbedding]

\* an except clause that re-raises, as the second except clause of the loop does
ItemFailedRaise(t) ==
    [t EXCEPT !.error_count = @ + 1, !.pc = "done", !.outcome = "raised",
              !.embedding = NoEmbedding]
\* the first except clause of the loop: count the error and continue
ItemFailed(t) == Continue([t EXCEPT !.error_count = @ + 1])

Log(t, e) == [t EXCEPT !.events = Append(@, e)]

\* the re-read of a product without the check of its embedding
ReadOutcomeUnchecked(t, id, raised) ==
    IF raised THEN ItemFailed(Log(t, Event("read", id, "error", FALSE)))
    ELSE IF ~products[id].present THEN Continue(Log(t, Event("read", id, "missing", TRUE)))
    ELSE [Log(t, Event("read", id,
                       IF products[id].embedding # NoEmbedding THEN "set" ELSE "null", TRUE))
            EXCEPT !.pc = "embed"]
\* lines 74-87 of the loop body: re-read the product in a fresh session, skip it
\* when it is gone or already has an embedding, build its text
ReadOutcome(t, id, raised) ==
    IF raised THEN ItemFailed(Log(t, Event("read", id, "error", FALSE)))
    ELSE IF ~products[id].present THEN Continue(Log(t, Event("read", id, "missing", TRUE)))
    ELSE IF products[id].embedding # NoEmbedding
         THEN Continue(Log(t, Event("read", id, "set", TRUE)))
         ELSE [Log(t, Event("read", id, "null", TRUE)) EXCEPT !.pc = "embed"]

\* a provider step whose failure is not raised: the write follows with no vector
EmbedOutcomeUnguarded(t, id, e) ==
    LET u == IF e.calls = <<>> THEN Log(t, Event("embed", id, "nokey", FALSE))
             ELSE Log(t, Event("embed", id, "called", e.calls[1].ok))
    IN [u EXCEPT !.pc = "update", !.embedding = e.vector]
\* line 90: generate_embedding(text)
EmbedOutcome(t, id, e) ==
    LET u == IF e.calls = <<>> THEN Log(t, Event("embed", id, "nokey", FALSE))
             ELSE Log(t, Event("embed", id, "called", e.calls[1].ok))
    IN IF e.raised THEN ItemFailed(u) ELSE [u EXCEPT !.pc = "update", !.embedding = e.vector]

\* a write that is not counted as processed
UpdateOutcomeUncounted(t, id, ok) ==
    IF ok THEN Continue(Log(t, Event("write", id, "", TRUE)))
    ELSE ItemFailed(Log(t, Event("write", id, "", FALSE)))
\* a write that is counted as processed before its commit, so also when it fails
UpdateOutcomeCountedEarly(t, id, ok) ==
    IF ok THEN Continue([Log(t, Event("write", id, "", TRUE)) EXCEPT !.processed_count = @ + 1])
    ELSE ItemFailed([Log(t, Event("write", id, "", FALSE)) EXCEPT !.processed_count = @ + 1])
\* lines 93-105: the UPDATE in its own session, then processed_count += 1
UpdateOutcome(t, id, ok) ==
    IF ok THEN Continue([Log(t, Event("write", id, "", TRUE)) EXCEPT !.processed_count = @ + 1])
    ELSE ItemFailed(Log(t, Event("write", id, "", FALSE)))

\* ---------------------------------------------------------- backfill actions
NoStatus == [status |-> "", processed |-> 0, total_remaining |-> 0]
BackfillStatus(status, processed, total_remaining) ==
    [status |-> status, processed |-> processed, total_remaining |-> total_remaining]

\* POST /search/admin/backfill-embeddings
AdminBackfillEmbeddings ==
    \E batch_size \in BatchSizes, count_ok \in BOOLEAN, w \in Workers :
        /\ Quiet
        /\ task[w].pc = "idle"
        /\ \A v \in Workers : v < w => task[v].pc # "idle"
        /\ IF ~VECTOR_SEARCH_ENABLED \/ OPENAI_API_KEY = NoKey
           THEN /\ lastAdmin' = [call |-> "backfill", status |-> 400, body |-> NoStatus]
                /\ task' = task
           ELSE IF ~count_ok
           THEN /\ lastAdmin' = [call |-> "backfill", status |-> 500, body |-> NoStatus]
                /\ task' = task
           ELSE IF RecordsWithoutEmbeddingsCount = 0
           THEN /\ lastAdmin' =
                     [call |-> "backfill", status |-> 200,
                      body |-> BackfillStatus("nothing to backfill", 0, 0)]
                /\ task' = task
           ELSE /\ lastAdmin' =
                     [call |-> "backfill", status |-> 200,
                      body |-> BackfillStatus("started", 0, RecordsWithoutEmbeddingsCount)]
                /\ task' = [task EXCEPT ![w] = [IdleTask EXCEPT !.pc = "scheduled",
                                                                !.batch_size = batch_size]]
        /\ UNCHANGED <<settings, catalog, crud, VECTOR_SEARCH_ENABLED, OPENAI_API_KEY, products, lastSearch>>

\* process_embeddings_batch, lines 46-67: the scan
ScanBatch(w) ==
    /\ Quiet
    /\ task[w].pc = "scheduled"
    /\ \E fetch_ok \in BOOLEAN, ids \in RecordsWithoutEmbeddings(task[w].batch_size) :
          task' = [task EXCEPT ![w] =
                     IF ~fetch_ok \/ ids = <<>>
                     THEN [@ EXCEPT !.pc = "done", !.outcome = "returned"]
                     ELSE [@ EXCEPT !.pc = "read", !.product_ids = ids, !.i = 1]]
    /\ UNCHANGED <<settings, catalog, crud, VECTOR_SEARCH_ENABLED, OPENAI_API_KEY, products, lastSearch, lastAdmin>>

\* process_embeddings_batch, lines 72-87: re-read of the current product
ReadProduct(w) ==
    /\ Quiet
    /\ task[w].pc = "read"
    /\ \E raised \in BOOLEAN :
          task' = [task EXCEPT ![w] = ReadOutcome(@, @.product_ids[@.i], raised)]
    /\ UNCHANGED <<settings, catalog, crud, VECTOR_SEARCH_ENABLED, OPENAI_API_KEY, products, lastSearch, lastAdmin>>

\* process_embeddings_batch, line 90: the provider call for the current product
EmbedProduct(w) ==
    /\ Quiet
    /\ task[w].pc = "embed"
    /\ \E env \in ProviderEnvironments :
          task' = [task EXCEPT ![w] =
                     EmbedOutcome(@, @.product_ids[@.i], GenerateEmbedding(@.product_ids[@.i], env))]
    /\ UNCHANGED <<settings, catalog, crud, VECTOR_SEARCH_ENABLED, OPENAI_API_KEY, products, lastSearch, lastAdmin>>

\* process_embeddings_batch, lines 93-110: the write of the current product
UpdateProduct(w) ==
    /\ Quiet
    /\ task[w].pc = "update"
    /\ \E ok \in BOOLEAN :
          /\ task' = [task EXCEPT ![w] = UpdateOutcome(@, @.product_ids[@.i], ok)]
          /\ products' =
               IF ok /\ products[task[w].product_ids[task[w].i]].present
               THEN [products EXCEPT ![task[w].product_ids[task[w].i]].embedding =
                                         task[w].embedding]
               ELSE products
    /\ UNCHANGED <<settings, catalog, crud, VECTOR_SEARCH_ENABLED, OPENAI_API_KEY, lastSearch, lastAdmin>>

\* a product row is deleted and the deletion committed (the statements of
\* CRUDBase.remove, lines 112-113)
DeleteProduct ==
    \E id \in ProductIds :
        /\ StoreQuiet
        /\ products[id].present
        /\ Cardinality({i \in ProductIds : ~products[i].present}) < MaxDeletes
        /\ products' = [products EXCEPT ![id].present = FALSE]
        /\ UNCHANGED <<settings, catalog, crud, VECTOR_SEARCH_ENABLED, OPENAI_API_KEY, lastSearch, lastAdmin, task>>

BackfillNext ==
    \/ AdminBackfillEmbeddings
    \/ \E w \in Workers : ScanBatch(w) \/ ReadProduct(w) \/ EmbedProduct(w) \/ UpdateProduct(w)
    \/ DeleteProduct
    \/ CloseAdminRequest

BackfillSpec == Init /\ [][BackfillNext]_vars

\* ======================================= backfill, statement by statement
\* process_embeddings_batch at the granularity of its sessions and awaits, with
\* the two admin endpoints that report on it. task[w].sessions is the set of
\* `async with sessionmaker()` blocks the invocation is inside.
OpenSession(t, name) == [t EXCEPT !.sessions = @ \cup {name}]
\* a session that is kept until the invocation ends
CloseSessionAtEnd(t, name) == IF t.pc = "done" THEN [t EXCEPT !.sessions = {}] ELSE t
\* leaving the block, by its end, a return, a continue or an exception
CloseSession(t, name) == [t EXCEPT !.sessions = @ \ {name}]

\* line 49: async with sessionmaker() as fetch_db
OpenFetchSession(w) ==
    /\ StoreQuiet
    /\ task[w].pc = "scheduled" /\ task[w].sessions = {}
    /\ task' = [task EXCEPT ![w] = OpenSession(@, "fetch_db")]
    /\ UNCHANGED <<settings, catalog, crud, VECTOR_SEARCH_ENABLED, OPENAI_API_KEY, products, lastSearch, lastAdmin>>

\* lines 50-61: the scan inside fetch_db, and the end of the block
FetchProductIds(w) ==
    /\ StoreQuiet
    /\ task[w].pc = "scheduled" /\ "fetch_db" \in task[w].sessions
    /\ \E fetch_ok \in BOOLEAN, ids \in RecordsWithoutEmbeddings(task[w].batch_size) :
          task' = [task EXCEPT ![w] =
                     CloseSession(
                       IF ~fetch_ok \/ ids = <<>>
                       THEN [@ EXCEPT !.pc = "done", !.outcome = "returned"]
                       ELSE [@ EXCEPT !.pc = "read", !.product_ids = ids, !.i = 1],
                       "fetch_db")]
    /\ UNCHANGED <<settings, catalog, crud, VECTOR_SEARCH_ENABLED, OPENAI_API_KEY, products, lastSearch, lastAdmin>>

\* line 74: async with sessionmaker() as read_db
OpenReadSession(w) ==
    /\ StoreQuiet
    /\ task[w].pc = "read" /\ "read_db" \notin task[w].sessions
    /\ task' = [task EXCEPT ![w] = OpenSession(@, "read_db")]
    /\ UNCHANGED <<settings, catalog, crud, VECTOR_SEARCH_ENABLED, OPENAI_API_KEY, products, lastSearch, lastAdmin>>

\* lines 76-87: the re-read, the two checks and the text, and the end of the block
GetProduct(w) ==
    /\ StoreQuiet
    /\ task[w].pc = "read" /\ "read_db" \in task[w].sessions
    /\ \E raised \in BOOLEAN :
          task' = [task EXCEPT ![w] =
                     CloseSession(ReadOutcome(@, @.product_ids[@.i], raised), "read_db")]
    /\ UNCHANGED <<settings, catalog, crud, VECTOR_SEARCH_ENABLED, OPENAI_API_KEY, products, lastSearch, lastAdmin>>

\* line 90: generate_embedding is entered; without a key it raises at once,
\* otherwise the request to the provider is in flight
CallProvider(w) ==
    /\ StoreQuiet
    /\ task[w].pc = "embed"
    /\ task' = [task EXCEPT ![w] =
                  IF OPENAI_API_KEY = NoKey
                  THEN EmbedOutcome(@, @.product_ids[@.i],
                                    GenerateEmbedding(@.product_ids[@.i],
                                                      CHOOSE e \in ProviderEnvironments : TRUE))
                  ELSE [@ EXCEPT !.pc = "calling"]]
    /\ UNCHANGED <<settings, catalog, crud, VECTOR_SEARCH_ENABLED, OPENAI_API_KEY, products, lastSearch, lastAdmin>>

\* line 90: the provider answers, with a vector or an error
ProviderReturns(w) ==
    /\ StoreQuiet
    /\ task[w].pc = "calling"
    /\ \E env \in ProviderEnvironments :
          task' = [task EXCEPT ![w] =
                     EmbedOutcome([@ EXCEPT !.pc = "embed"], @.product_ids[@.i],
                                  GenerateEmbedding(@.product_ids[@.i], env))]
    /\ UNCHANGED <<settings, catalog, crud, VECTOR_SEARCH_ENABLED, OPENAI_API_KEY, products, lastSearch, lastAdmin>>

\* line 93: async with sessionmaker() as update_db
OpenUpdateSession(w) ==
    /\ StoreQuiet
    /\ task[w].pc = "update" /\ "update_db" \notin task[w].sessions
    /\ task' = [task EXCEPT ![w] = OpenSession(@, "update_db")]
    /\ UNCHANGED <<settings, catalog, crud, VECTOR_SEARCH_ENABLED, OPENAI_API_KEY, products, lastSearch, lastAdmin>>

\* lines 95-105: the UPDATE, its commit, and the end of the block
ExecuteUpdate(w) ==
    /\ StoreQuiet
    /\ task[w].pc = "update" /\ "update_db" \in task[w].sessions
    /\ \E ok \in BOOLEAN :
          /\ task' = [task EXCEPT ![w] =
                        CloseSession(UpdateOutcome(@, @.product_ids[@.i], ok), "update_db")]
          /\ products' =
               IF ok /\ products[task[w].product_ids[task[w].i]].present
               THEN [products EXCEPT ![task[w].product_ids[task[w].i]].embedding =
                                         task[w].embedding]
               ELSE products
    /\ UNCHANGED <<settings, catalog, crud, VECTOR_SEARCH_ENABLED, OPENAI_API_KEY, lastSearch, lastAdmin>>

\* CRUDBase.count on the product table
TotalCount == Cardinality({i \in ProductIds : products[i].present})

\* GET /search/admin/embedding-status, lines 315-323: the answer when vector
\* search is disabled, else the first count statement
GetEmbeddingStatus ==
    \E count_ok \in BOOLEAN :
        /\ Quiet
        /\ lastAdmin' =
             IF ~VECTOR_SEARCH_ENABLED
             THEN [call |-> "status", status |-> 200, body |-> BackfillStatus("disabled", 0, 0)]
             ELSE IF ~count_ok
             THEN [call |-> "status", status |-> 500, body |-> NoStatus]
             ELSE [call |-> "status", status |-> 0,
                   body |-> BackfillStatus("", 0, RecordsWithoutEmbeddingsCount)]
        /\ UNCHANGED <<settings, catalog, crud, VECTOR_SEARCH_ENABLED, OPENAI_API_KEY, products, lastSearch, task>>

\* lines 326-332: the second count statement and the answer
AnswerEmbeddingStatus ==
    \E count_ok \in BOOLEAN :
        /\ lastAdmin.call = "status" /\ lastAdmin.status = 0
        /\ lastAdmin' =
             IF ~count_ok THEN [call |-> "status", status |-> 500, body |-> NoStatus]
             ELSE LET remaining_count == lastAdmin.body.total_remaining
                  IN [call |-> "status", status |-> 200,
                      body |-> BackfillStatus(
                                 IF remaining_count > 0 THEN "in_progress" ELSE "completed",
                                 TotalCount - remaining_count, remaining_count)]
        /\ UNCHANGED <<settings, catalog, crud, VECTOR_SEARCH_ENABLED, OPENAI_API_KEY, products, lastSearch, task>>

BatchStep(w) ==
    \/ OpenFetchSession(w) \/ FetchProductIds(w)
    \/ OpenReadSession(w) \/ GetProduct(w)
    \/ CallProvider(w) \/ ProviderReturns(w)
    \/ OpenUpdateSession(w) \/ ExecuteUpdate(w)

AdminNext ==
    \/ AdminEnableVectorSearch
    \/ AdminBackfillEmbeddings
    \/ GetEmbeddingStatus
    \/ AnswerEmbeddingStatus
    \/ CloseAdminRequest
    \/ BatchStep(1)
    \/ DeleteProduct

\* one invocation followed statement by statement (the first task slot), the
\* endpoints and a concurrent client of the store
AdminSpec == Init /\ [][AdminNext]_vars

\* ============================================ backfill, invoked repeatedly
\* The backfill triggered again and again, one invocation at a time, in an
\* environment where the store answers every statement and the provider's
\* answer depends on the product only: it fails on every attempt for the
\* products of Unembeddable and succeeds for the others.
Unembeddable == {1}
ProviderFor(id) ==
    {e \in ProviderEnvironments : e.provider = (IF id \in Unembeddable THEN "fail" ELSE "ok")}

RepeatInit ==
    /\ Init
    /\ VECTOR_SEARCH_ENABLED /\ OPENAI_API_KEY # NoKey
    /\ \A i \in ProductIds : products[i].embedding = NoEmbedding

\* admin_backfill_embeddings, its count statement succeeding
TriggerBatch ==
    \E batch_size \in BatchSizes :
        /\ Quiet
        /\ task[1].pc = "idle"
        /\ IF RecordsWithoutEmbeddingsCount = 0
           THEN /\ lastAdmin' =
                     [call |-> "backfill", status |-> 200,
                      body |-> BackfillStatus("nothing to backfill", 0, 0)]
                /\ task' = task
           ELSE /\ lastAdmin' =
                     [call |-> "backfill", status |-> 200,
                      body |-> BackfillStatus("started", 0, RecordsWithoutEmbeddingsCount)]
                /\ task' = [task EXCEPT ![1] = [IdleTask EXCEPT !.pc = "scheduled",
                                                                !.batch_size = batch_size]]
        /\ UNCHANGED <<settings, catalog, crud, VECTOR_SEARCH_ENABLED, OPENAI_API_KEY, products, lastSearch>>

\* lines 46-67, the scan succeeding
ScanStep ==
    /\ Quiet
    /\ task[1].pc = "scheduled"
    /\ \E ids \in RecordsWithoutEmbeddings(task[1].batch_size) :
          task' = [task EXCEPT ![1] =
                     IF ids = <<>> THEN [@ EXCEPT !.pc = "done", !.outcome = "returned"]
                     ELSE [@ EXCEPT !.pc = "read", !.product_ids = ids, !.i = 1]]
    /\ UNCHANGED <<settings, catalog, crud, VECTOR_SEARCH_ENABLED, OPENAI_API_KEY, products, lastSearch, lastAdmin>>

\* lines 72-87, the re-read succeeding
ReadStep ==
    /\ Quiet
    /\ task[1].pc = "read"
    /\ task' = [task EXCEPT ![1] = ReadOutcome(@, @.product_ids[@.i], FALSE)]
    /\ UNCHANGED <<settings, catalog, crud, VECTOR_SEARCH_ENABLED, OPENAI_API_KEY, products, lastSearch, lastAdmin>>

\* line 90, the provider answering as it does for this product
EmbedStep ==
    /\ Quiet
    /\ task[1].pc = "embed"
    /\ \E env \in ProviderFor(task[1].product_ids[task[1].i]) :
          task' = [task EXCEPT ![1] =
                     EmbedOutcome(@, @.product_ids[@.i], GenerateEmbedding(@.product_ids[@.i], env))]
    /\ UNCHANGED <<settings, catalog, crud, VECTOR_SEARCH_ENABLED, OPENAI_API_KEY, products, lastSearch, lastAdmin>>

\* lines 93-105, the write succeeding
UpdateStep ==
    /\ Quiet
    /\ task[1].pc = "update"
    /\ task' = [task EXCEPT ![1] = UpdateOutcome(@, @.product_ids[@.i], TRUE)]
    /\ products' = [products EXCEPT ![task[1].product_ids[task[1].i]].embedding =
                                       task[1].embedding]
    /\ UNCHANGED <<settings, catalog, crud, VECTOR_SEARCH_ENABLED, OPENAI_API_KEY, lastSearch, lastAdmin>>

\* the invocation has returned: the next trigger schedules a new one
InvocationOver ==
    /\ Quiet
    /\ task[1].pc = "done"
    /\ task' = [task EXCEPT ![1] = IdleTask]
    /\ UNCHANGED <<settings, catalog, crud, VECTOR_SEARCH_ENABLED, OPENAI_API_KEY, products, lastSearch, lastAdmin>>

RepeatNext ==
    \/ TriggerBatch \/ CloseAdminRequest
    \/ ScanStep \/ ReadStep \/ EmbedStep \/ UpdateStep
    \/ InvocationOver

\* the event loop runs every step that is ready, and the backfill is triggered
\* whenever no invocation is running
RepeatSpec ==
    /\ RepeatInit /\ [][RepeatNext]_vars
    /\ WF_vars(TriggerBatch) /\ WF_vars(CloseAdminRequest)
    /\ WF_vars(ScanStep) /\ WF_vars(ReadStep) /\ WF_vars(EmbedStep) /\ WF_vars(UpdateStep)
    /\ WF_vars(InvocationOver)

\* ================================================================== CRUD
\* Calls of CRUDProduct / CRUDCategory create and update on a request's
\* session. catalog is what is committed; crud.pending is the search vector
\* written by the session's open transaction, visible to that session only.
CrudInit ==
    /\ VECTOR_SEARCH_ENABLED = FALSE /\ OPENAI_API_KEY = NoKey
    /\ products = [i \in ProductIds |-> [present |-> TRUE, embedding |-> NoEmbedding]]
    /\ lastSearch = NoSearch /\ lastAdmin = NoAdmin
    /\ task = [w \in Workers |-> IdleTask]
    /\ \E title \in Titles, computed \in BOOLEAN :
          catalog = [key \in RowKeys |->
                       RowOf(key[1], title, IF computed THEN {ToTsvector(title)} ELSE {})]
    /\ crud = NoCrud
    /\ settings = DefaultSettings

\* the update schemas: every column Optional; the calls set title/name and brand
UpdateInputs(model) ==
    IF model = "Product"
    THEN [title : {{}} \cup {{t} : t \in Titles}, description : {{}},
          brand : {{}} \cup {{b} : b \in Brands}, tags : {{}}]
    ELSE [name : {{}} \cup {{t} : t \in Titles}, description : {{}}]

\* CRUDBase.update, lines 92-94: the columns given a value that is not None
SetAttributes(fields, obj_in) ==
    [f \in DOMAIN fields |-> IF obj_in[f] # {} THEN obj_in[f] ELSE fields[f]]

\* CRUDProduct.create / CRUDCategory.create -> CRUDBase.create: its first
\* statement, logging.info(...), names a module crud_base.py does not import
\* (it imports `logger`), so the call raises before the row is added
CrudCreate ==
    \E model \in Models :
        /\ crud.closed
        /\ crud' = [op |-> "create", model |-> model, id |-> 0, pending |-> {},
                    outcome |-> "raised", closed |-> FALSE]
        /\ UNCHANGED <<settings, VECTOR_SEARCH_ENABLED, OPENAI_API_KEY, products, lastSearch, lastAdmin,
                       task, catalog>>

\* an update that clears the product's embedding so that it is recomputed
CrudUpdateClearingEmbedding ==
    \E key \in RowKeys, obj_in \in UpdateInputs("Product") :
        /\ crud.closed /\ key[1] = "Product"
        /\ catalog' = [catalog EXCEPT ![key].fields = SetAttributes(@, obj_in)]
        /\ crud' = [op |-> "update", model |-> key[1], id |-> key[2],
                    pending |-> {}, outcome |-> "returned", closed |-> FALSE]
        /\ products' = [products EXCEPT ![key[2]].embedding = NoEmbedding]
        /\ UNCHANGED <<settings, VECTOR_SEARCH_ENABLED, OPENAI_API_KEY, lastSearch, lastAdmin,
                       task>>

\* CRUDProduct.update / CRUDCategory.update: CRUDBase.update sets the columns
\* and commits; update_search_vector then executes its UPDATE in a new
\* transaction of the same session, refreshes the object and returns
CrudUpdate ==
    \E key \in RowKeys, commit_ok \in BOOLEAN, execute_ok \in BOOLEAN :
      \E obj_in \in UpdateInputs(key[1]) :
        LET fields == SetAttributes(catalog[key].fields, obj_in)
        IN
          /\ crud.closed
          /\ catalog' = IF commit_ok THEN [catalog EXCEPT ![key].fields = fields] ELSE catalog
          /\ crud' = [op |-> "update", model |-> key[1], id |-> key[2],
                      pending |-> IF commit_ok /\ execute_ok
                                  THEN Projection(key[1], fields) ELSE {},
                      outcome |-> IF commit_ok /\ execute_ok THEN "returned" ELSE "raised",
                      closed |-> FALSE]
          /\ UNCHANGED <<settings, VECTOR_SEARCH_ENABLED, OPENAI_API_KEY, products, lastSearch, lastAdmin,
                         task>>

\* get_db's finally clause: session.close() ends the session's open
\* transaction without a commit, and what it wrote is rolled back
CloseCrudRequest ==
    /\ ~crud.closed
    /\ crud' = [crud EXCEPT !.closed = TRUE, !.pending = {}]
    /\ UNCHANGED <<settings, VECTOR_SEARCH_ENABLED, OPENAI_API_KEY, products, lastSearch, lastAdmin,
                   task, catalog>>

CrudNext == CrudCreate \/ CrudUpdate \/ CloseCrudRequest

CrudSpec == CrudInit /\ [][CrudNext]_vars

\* ============================================ updates during a backfill
\* Updates of one product through the CRUD layer while a backfill invocation
\* runs: vector search is enabled with a key, the product table holds rows
\* with and without embedding.
UpdatedProduct == 1
ContentInit ==
    /\ VECTOR_SEARCH_ENABLED = TRUE /\ OPENAI_API_KEY \in Keys
    /\ products \in [ProductIds -> [present : {TRUE}, embedding : {NoEmbedding, "v1"}]]
    /\ lastSearch = NoSearch /\ lastAdmin = NoAdmin
    /\ task = [w \in Workers |-> IdleTask]
    /\ catalog = SeedRows /\ crud = NoCrud
    /\ settings = DefaultSettings

ContentNext ==
    \/ TriggerBatch \/ CloseAdminRequest
    \/ ScanBatch(1) \/ ReadProduct(1) \/ EmbedProduct(1) \/ UpdateProduct(1)
    \/ CrudUpdate /\ crud'.model = "Product" /\ crud'.id = UpdatedProduct
    \/ CloseCrudRequest

ContentSpec == ContentInit /\ [][ContentNext]_vars

\* ========================================================= configuration
\* The start of the process: config.py builds `settings` from the environment
\* and calls settings.initialize(); search_modules.py is imported after that,
\* and requests are served once the application is imported.
ConfigWeights == {0, 3, 4, 6}
ConfigInit ==
    /\ VECTOR_SEARCH_ENABLED = TRUE /\ OPENAI_API_KEY \in Keys
    /\ products \in [ProductIds -> [present : {TRUE}, embedding : {NoEmbedding, "v1"}]]
    /\ lastSearch = NoSearch /\ lastAdmin = NoAdmin
    /\ task = [w \in Workers |-> IdleTask]
    /\ catalog = SeedRows /\ crud = NoCrud
    /\ \E text_weight \in ConfigWeights, vector_weight \in ConfigWeights :
          settings = LoadedSettings(text_weight, vector_weight)

\* arithmetic on fractions
Plus(a, b) == [num |-> a.num * b.den + b.num * a.den, den |-> a.den * b.den]
IsOne(a) == a.num = a.den
IsZero(a) == a.num = 0
Divide(a, b) == [num |-> a.num * b.den, den |-> a.den * b.num]

\* Settings.initialize, lines 75-79: the weights divided by their sum unless
\* it is 1.0; the division raises ZeroDivisionError when the sum is 0
Initialized(s) ==
    LET total_weight == Plus(s.hybrid_search_text_weight, s.hybrid_search_vector_weight)
    IN IF IsOne(total_weight) THEN [s EXCEPT !.state = "initialized"]
       ELSE IF IsZero(total_weight) THEN [s EXCEPT !.state = "failed"]
       ELSE [s EXCEPT !.state = "initialized",
                      !.hybrid_search_text_weight = Divide(@, total_weight),
                      !.hybrid_search_vector_weight = Divide(@, total_weight)]

\* settings.initialize() at the end of config.py
Initialize ==
    /\ settings.state = "loaded"
    /\ settings' = Initialized(settings)
    /\ UNCHANGED <<VECTOR_SEARCH_ENABLED, OPENAI_API_KEY, products, lastSearch, lastAdmin,
                   task, catalog, crud>>

\* SearchConfig.TEXT_WEIGHT and VECTOR_WEIGHT: class attributes read from the
\* initialized settings when search_modules.py is imported, never assigned again
TEXT_WEIGHT == settings.hybrid_search_text_weight
VECTOR_WEIGHT == settings.hybrid_search_vector_weight

\* the application serves requests once its modules are imported
Imported == settings.state = "initialized"

ConfigNext ==
    \/ Initialize
    \/ Imported /\ SearchProducts
    \/ CloseSearchRequest

ConfigSpec == ConfigInit /\ [][ConfigNext]_vars

\* ====================================================== search: properties
IsSearchRoute == lastSearch.route \in {"products", "categories"}
RequestModel == IF lastSearch.route = "categories" THEN "Category" ELSE "Product"
\* the executions of the text strategy during the call, in order
TextExecutions == SelectSeq(lastSearch.response.log, LAMBDA x : x.strategy = "text")
\* the text strategy's execution for the call's own arguments
OwnTextExecution(ok) ==
    Execution("text", RequestModel, lastSearch.q, lastSearch.filters, lastSearch.range_filters,
              lastSearch.limit, ok)
\* what the text strategy returns for the call's arguments on the current table
OwnTextResults ==
    ToSchema(TextRows(RequestModel, lastSearch.q, lastSearch.filters, lastSearch.range_filters,
                      lastSearch.limit))
\* the vector strategy did not return: no vector statement executed successfully
VectorStrategyFailed ==
    ~\E k \in 1..Len(lastSearch.response.log) :
        lastSearch.response.log[k].strategy = "vector" /\ lastSearch.response.log[k].ok
\* embedding generation for the query failed: no key, or the provider call failed
EmbeddingFailed ==
    \/ lastSearch.response.embed = <<>>
    \/ ~lastSearch.response.embed[1].ok

\* C1: a search request whose method is not text, vector or hybrid ends with a
\* 4xx status, and no strategy, store statement or provider call is executed.
C1_InvalidMethodIsClientError ==
    (IsSearchRoute /\ lastSearch.method \notin Methods) =>
        /\ lastSearch.response.status \in 400..499
        /\ lastSearch.response.log = <<>>
        /\ lastSearch.response.embed = <<>>

\* C2: a vector or hybrid request issued while vector search is disabled is
\* served by the text strategy only: no provider call, exactly one text
\* execution with the request's arguments, no error from the downgrade (the
\* response is 200 unless that text execution itself fails) and the response's
\* method field is text.
C2_DisabledDowngradesToText ==
    (IsSearchRoute /\ lastSearch.method \in {"vector", "hybrid"} /\ ~lastSearch.enabled) =>
        /\ lastSearch.response.embed = <<>>
        /\ Len(lastSearch.response.log) = 1
        /\ lastSearch.response.log[1] = OwnTextExecution(lastSearch.response.log[1].ok)
        /\ lastSearch.response.status = (IF lastSearch.response.log[1].ok THEN 200 ELSE 500)
        /\ lastSearch.response.log[1].ok =>
              /\ lastSearch.response.method = "text"
              /\ lastSearch.response.results = OwnTextResults
C2_Witness ==
    /\ IsSearchRoute /\ lastSearch.method = "hybrid" /\ ~lastSearch.enabled
    /\ lastSearch.response.status = 200 /\ lastSearch.response.method = "text"
    /\ Len(lastSearch.response.results) = 2

\* C3: with method=vector and vector search enabled, when the vector strategy
\* raises (provider failure, missing key, store error), the text strategy is
\* executed exactly once with the same query, filters, range filters and limit,
\* and the request returns what the text strategy returns on the same table
\* instead of failing on the vector error.
C3_VectorErrorFallsBackToText ==
    (IsSearchRoute /\ lastSearch.method = "vector" /\ lastSearch.enabled /\ VectorStrategyFailed) =>
        /\ Len(TextExecutions) = 1
        /\ TextExecutions[1] = OwnTextExecution(TextExecutions[1].ok)
        /\ TextExecutions[1].ok =>
              /\ lastSearch.response.status = 200
              /\ lastSearch.response.results = OwnTextResults
C3_Witness ==
    /\ lastSearch.route = "products" /\ lastSearch.method = "vector" /\ lastSearch.enabled
    /\ Len(lastSearch.response.log) = 2 /\ ~lastSearch.response.log[1].ok
    /\ lastSearch.response.status = 200 /\ Len(lastSearch.response.results) = 2

\* C4: with method=vector, vector search enabled and embedding generation
\* failing, the method field of the response is text, the strategy that
\* produced the results.
C4_FallbackReportsText ==
    (/\ IsSearchRoute /\ lastSearch.method = "vector" /\ lastSearch.enabled
     /\ EmbeddingFailed /\ lastSearch.response.status = 200) =>
        lastSearch.response.method = "text"

\* C5: HybridSearchStrategy.search with vector search enabled: when embedding
\* generation fails, the call returns the text strategy's result for the same
\* query, filters, range filters and limit, and raises only if that text
\* execution itself raises.
C5_HybridEmbeddingFailureDegradesToText ==
    (lastSearch.route = "hybrid_search" /\ lastSearch.enabled /\ EmbeddingFailed) =>
        /\ Len(lastSearch.response.log) = 1
        /\ lastSearch.response.log[1] = OwnTextExecution(lastSearch.response.log[1].ok)
        /\ lastSearch.response.raised = ~lastSearch.response.log[1].ok
        /\ ~lastSearch.response.raised => lastSearch.response.results = OwnTextResults
C5_Witness ==
    /\ lastSearch.route = "hybrid_search" /\ lastSearch.enabled
    /\ Len(lastSearch.response.embed) = 1 /\ ~lastSearch.response.embed[1].ok
    /\ ~lastSearch.response.raised /\ Len(lastSearch.response.results) = 2

\* C6: while vector search is disabled, a hybrid search (through a route or
\* through hybrid_search) executes the text statement only and returns exactly
\* the text strategy's result list: same entities, order and relevance.
C6_DisabledHybridEqualsText ==
    (/\ lastSearch.route # "none" /\ lastSearch.method = "hybrid" /\ ~lastSearch.enabled
     /\ ~lastSearch.response.raised) =>
        /\ lastSearch.response.results = OwnTextResults
        /\ lastSearch.response.log = <<OwnTextExecution(TRUE)>>
        /\ lastSearch.response.embed = <<>>
C6_Witness ==
    /\ lastSearch.route = "hybrid_search" /\ ~lastSearch.enabled /\ OPENAI_API_KEY # NoKey
    /\ ~lastSearch.response.raised /\ Len(lastSearch.response.results) = 2
    /\ \E i \in ProductIds : products[i].embedding # NoEmbedding

\* C7: for a vector or hybrid request in which embedding generation fails, the
\* text strategy is attempted exactly once, and if it fails the request ends
\* with a 5xx status.
C7_OneTextFallback ==
    (/\ IsSearchRoute /\ lastSearch.method \in {"vector", "hybrid"} /\ lastSearch.enabled
     /\ EmbeddingFailed) =>
        /\ Len(TextExecutions) = 1
        /\ ~TextExecutions[1].ok => lastSearch.response.status \in 500..599

\* ==================================================== backfill: properties
\* the events of task t that satisfy Test
EventsOf(t, Test(_)) == SelectSeq(t.events, Test)
IsRead(e) == e.ev = "read"
IsFailure(e) == ~e.ok
\* the ids of a sequence of events
EventIds(es) == [k \in 1..Len(es) |-> es[k].id]
\* the product ids whose pass of the loop has started
Attempted(t) ==
    SubSeq(t.product_ids, 1,
           IF t.pc \in {"embed", "update", "done"} THEN t.i ELSE t.i - 1)

\* C8: in process_embeddings_batch a failure while reading the product or
\* building its text, calling the provider or writing the embedding increments
\* the error counter and the loop goes on: the products attempted are always
\* the fetched ids up to the current one, all of them once the invocation has
\* ended, and no invocation ends by raising.
C8_ItemFailureNeverAbortsBatch ==
    \A w \in Workers :
        /\ task[w].outcome # "raised"
        /\ task[w].error_count = Len(EventsOf(task[w], IsFailure))
        /\ EventIds(EventsOf(task[w], IsRead)) = Attempted(task[w])
        /\ task[w].pc = "done" => Attempted(task[w]) = task[w].product_ids
C8_Witness ==
    \E w \in Workers :
        /\ task[w].pc = "done" /\ Len(task[w].product_ids) = 2
        /\ task[w].error_count = 1 /\ task[w].processed_count = 1
        /\ task[w].events[2] = Event("embed", task[w].product_ids[1], "called", FALSE)
        /\ task[w].events[Len(task[w].events)] = Event("write", task[w].product_ids[2], "", TRUE)

\* C9: each product of the batch is re-read once before it is processed, and
\* a provider call or a write is made for it only when that re-read saw a null
\* embedding: a product found embedded at the re-read gets neither.
C9_RereadSkipsEmbedded ==
    \A w \in Workers : \A k \in 1..Len(task[w].events) :
        LET e == task[w].events[k]
            reads == {j \in 1..Len(task[w].events) :
                        task[w].events[j].ev = "read" /\ task[w].events[j].id = e.id}
        IN /\ Cardinality(reads) <= 1
           /\ e.ev \in {"embed", "write"} =>
                 \E j \in reads : j < k /\ task[w].events[j].seen = "null"
C9_Witness ==
    \E w \in Workers :
        /\ task[w].pc = "done"
        /\ \E k \in 1..Len(task[w].events) :
              /\ task[w].events[k].ev = "read" /\ task[w].events[k].seen = "set"
              /\ \A j \in 1..Len(task[w].events) :
                    task[w].events[j].id = task[w].events[k].id => j = k

\* C10: after the last product of a non-empty batch has been attempted, the
\* invocation reports the processed and error counts and recomputes the count
\* of products with a null embedding before it ends.
C10_CompletionReportedAndRecounted ==
    \A w \in Workers :
        (task[w].pc = "done" /\ task[w].product_ids # <<>>) =>
            /\ \E k \in 1..Len(task[w].events) : task[w].events[k].ev = "report"
            /\ \E k \in 1..Len(task[w].events) : task[w].events[k].ev = "count"

\* C11: one invocation of process_embeddings_batch scans once (the fetched ids
\* are fixed after the scan, a scan is entered only from the trigger's
\* scheduling), attempts at most batch_size products, and ends for good: a
\* finished invocation never moves again and no step of an invocation changes
\* another task, also while products with a null embedding remain.
C11_SingleBatchPerInvocation ==
    [][\A w \in Workers :
          /\ Len(task'[w].product_ids) <= task'[w].batch_size
          /\ Len(EventsOf(task'[w], IsRead)) <= task'[w].batch_size
          /\ task'[w].pc = "scheduled" => task[w].pc \in {"idle", "scheduled"}
          /\ task[w].pc \notin {"idle", "scheduled"} =>
                task'[w].product_ids = task[w].product_ids
          /\ task[w].pc = "done" => task'[w] = task[w]
          /\ (task[w].pc # "idle" /\ task'[w] # task[w]) =>
                \A v \in Workers \ {w} : task'[v] = task[v]]_vars
C11_Witness ==
    /\ task[1].pc = "done" /\ task[1].batch_size = 2 /\ task[1].processed_count = 2
    /\ task[2].pc = "idle"
    /\ RecordsWithoutEmbeddingsCount > 0

\* C12: while no product has a null embedding, running the backfill changes
\* nothing: the trigger endpoint schedules no task and reports no start, a
\* scheduled invocation ends at its scan with no product fetched, no provider
\* call and no write, and neither touches the table.
C12_FullyEmbeddedIsNoOp ==
    [][WithoutEmbedding = {} =>
          /\ (lastAdmin'.call = "backfill" /\ lastAdmin' # lastAdmin) =>
                /\ task' = task /\ products' = products
                /\ lastAdmin'.body.status # "started"
          /\ \A w \in Workers :
                /\ task[w].pc = "idle" => task'[w] = task[w]
                /\ (task[w].pc = "scheduled" /\ task'[w] # task[w]) =>
                      /\ products' = products
                      /\ task'[w] = [task[w] EXCEPT !.pc = "done", !.outcome = "returned"]]_vars
C12_Witness ==
    /\ WithoutEmbedding = {} /\ \A i \in ProductIds : products[i].present
    /\ task[1].pc = "done" /\ task[1].processed_count >= 1
    /\ task[2].pc = "done" /\ task[2].product_ids = <<>> /\ task[2].events = <<>>

\* the first invocation is the only one so far and nothing was deleted
FirstRunAlone == task[2].pc = "idle" /\ \A i \in ProductIds : products[i].present
\* the products without embedding before the first invocation, when it ran alone
NullBeforeFirstRun == task[1].processed_count + RecordsWithoutEmbeddingsCount
Min(a, b) == IF a < b THEN a ELSE b
\* the first invocation has ended leaving no null embedding, the second has
\* not scanned yet
SecondRunAfterComplete ==
    /\ task[1].pc = "done" /\ WithoutEmbedding = {}
    /\ task[2].pc \in {"idle", "scheduled"} /\ task[2].processed_count = 0

\* C13 as stated: starting from N products with a null embedding and no other
\* writes, the first of two successive backfill runs processes N products (so
\* none is left without embedding when it has ended) and the second processes 0.
\* Stated for a first run whose scan succeeded and in which no step failed.
C13_FirstRunProcessesAll ==
    (/\ FirstRunAlone /\ task[1].pc = "done"
     /\ task[1].product_ids # <<>> /\ task[1].error_count = 0) =>
        RecordsWithoutEmbeddingsCount = 0

\* C13 amended: the first run processes at most min(N, batch_size) products,
\* and exactly that many when none of its steps fails; a run that scans after
\* a run has left no null embedding processes 0; the count of products with a
\* null embedding never increases.
C13_TwoRunsBoundedByBatch ==
    /\ [](FirstRunAlone /\ task[1].pc = "done" /\ task[1].product_ids # <<>> =>
            /\ task[1].processed_count <= Min(NullBeforeFirstRun, task[1].batch_size)
            /\ task[1].error_count = 0 =>
                  task[1].processed_count = Min(NullBeforeFirstRun, task[1].batch_size))
    /\ [][/\ RecordsWithoutEmbeddingsCount' <= RecordsWithoutEmbeddingsCount
          /\ SecondRunAfterComplete =>
                \/ SecondRunAfterComplete'
                \/ /\ task'[2].pc = "done" /\ task'[2].processed_count = 0
                   /\ WithoutEmbedding' = {}
          /\ task[2].pc = "done" => task'[2] = task[2]]_vars
C13_Witness ==
    /\ \A i \in ProductIds : products[i].present
    /\ task[1].pc = "done" /\ task[1].batch_size = 2 /\ task[1].processed_count = 2
    /\ task[1].error_count = 0
    /\ task[2].pc = "done" /\ task[2].processed_count = 0 /\ task[2].events = <<>>
    /\ WithoutEmbedding = {}

\* the product the invocation is working on
CurrentId(t) == t.product_ids[t.i]
\* the invocation holds the vector the provider returned for its current product
HoldsProviderVector(t, id) ==
    /\ t.pc = "update" /\ CurrentId(t) = id /\ t.embedding \in Vectors
    /\ t.events[Len(t.events)] = Event("embed", id, "called", TRUE)
WorkerStep(w) == ScanBatch(w) \/ ReadProduct(w) \/ EmbedProduct(w) \/ UpdateProduct(w)

\* C14: with two process_embeddings_batch invocations running concurrently on
\* overlapping batches, an embedding changes only by the write of an invocation
\* that holds the vector the provider returned to it for that product, and
\* takes that vector (the last writer wins); an embedding that is not null
\* never becomes null; no invocation ends by raising, and an invocation that
\* has not ended can always take its next step.
C14_ConcurrentBatchesKeepEmbeddingsSound ==
    /\ [](\A w \in Workers :
            /\ task[w].outcome # "raised"
            /\ task[w].pc \in {"read", "embed", "update"} =>
                  task[w].i \in 1..Len(task[w].product_ids)
            /\ (task[w].pc \notin {"idle", "done"} /\ Quiet) => ENABLED WorkerStep(w))
    /\ [][\A id \in ProductIds :
            /\ products[id].embedding # NoEmbedding => products'[id].embedding # NoEmbedding
            /\ products'[id].embedding # products[id].embedding =>
                  \E w \in Workers :
                      /\ HoldsProviderVector(task[w], id)
                      /\ products'[id].embedding = task[w].embedding
                      /\ task'[w].processed_count = task[w].processed_count + 1]_vars
C14_Witness ==
    \E id \in ProductIds :
        /\ task[1].pc = "done" /\ task[2].pc = "done"
        /\ \A w \in Workers :
              \E k \in 1..Len(task[w].events) : task[w].events[k] = Event("write", id, "", TRUE)
        /\ products[id].embedding = "v2"
        /\ Len(task[1].product_ids) = 2 /\ Len(task[2].product_ids) = 2

\* ======================================== admin endpoints: properties
\* C16: while a provider call of an invocation is in flight the invocation is
\* inside none of its session blocks: the re-read's session is closed before
\* the call starts (and whenever the invocation is between the re-read and the
\* write), the write's session is open only after the call has returned, and
\* the scan's session only during the scan.
C16_NoSessionAcrossProviderCall ==
    \A w \in Workers :
        /\ task[w].pc \in {"idle", "embed", "calling", "done"} => task[w].sessions = {}
        /\ "fetch_db" \in task[w].sessions => task[w].pc = "scheduled"
        /\ "read_db" \in task[w].sessions => task[w].pc = "read"
        /\ "update_db" \in task[w].sessions => task[w].pc = "update"
        /\ Cardinality(task[w].sessions) <= 1
C16_Witness ==
    /\ task[1].pc = "calling" /\ task[1].i = 2 /\ task[1].processed_count = 1
    /\ task[1].events[Len(task[1].events)] = Event("read", CurrentId(task[1]), "null", TRUE)

AdminStatuses == {"started", "nothing to backfill", "disabled", "in_progress", "completed"}

\* C17: every call of the backfill trigger endpoint and of the status endpoint
\* is answered with a BackfillStatus object (status 200), whether vector search
\* is enabled or not and whether an API key is configured or not. Stated for
\* the calls whose store statements succeed.
C17_AdminEndpointsAlwaysReturnStatus ==
    (lastAdmin.call \in {"backfill", "status"} /\ lastAdmin.status \notin {0, 500}) =>
        /\ lastAdmin.status = 200
        /\ lastAdmin.body.status \in AdminStatuses

\* C18: a call of the trigger endpoint made while vector search is enabled, a
\* key is configured and some product has a null embedding (and whose count
\* statement succeeds) answers started with processed 0 and total_remaining
\* the number of products with a null embedding at that moment, and schedules
\* exactly one task, which has fetched and processed nothing when the answer
\* is given; the table is not touched.
C18_TriggerSchedulesOneBatch ==
    [][(/\ lastAdmin'.call = "backfill" /\ lastAdmin' # lastAdmin /\ lastAdmin'.status # 500
        /\ VECTOR_SEARCH_ENABLED /\ OPENAI_API_KEY # NoKey /\ WithoutEmbedding # {}) =>
          /\ lastAdmin'.status = 200
          /\ lastAdmin'.body = BackfillStatus("started", 0, Cardinality(WithoutEmbedding))
          /\ products' = products
          /\ \E w \in Workers :
                /\ task[w].pc = "idle"
                /\ \E b \in BatchSizes :
                      task'[w] = [IdleTask EXCEPT !.pc = "scheduled", !.batch_size = b]
                /\ \A v \in Workers \ {w} : task'[v] = task[v]]_vars
C18_Witness ==
    /\ lastAdmin = [call |-> "backfill", status |-> 200, body |-> BackfillStatus("started", 0, 2)]
    /\ task[1].pc = "done" /\ task[1].processed_count = 1
    /\ task[2] = [IdleTask EXCEPT !.pc = "scheduled", !.batch_size = 2]
    /\ \E i \in ProductIds : products[i].embedding # NoEmbedding

\* C19: an answer of the status endpoint is disabled with processed 0 and
\* total_remaining 0 when vector search is disabled; otherwise processed is the
\* total number of products minus total_remaining and is never negative,
\* total_remaining is at most the total, and status is in_progress exactly
\* when total_remaining > 0 and completed exactly when it is 0.
C19_StatusIsFunctionOfStore ==
    (lastAdmin.call = "status" /\ lastAdmin.status = 200) =>
        IF ~VECTOR_SEARCH_ENABLED
        THEN lastAdmin.body = BackfillStatus("disabled", 0, 0)
        ELSE /\ lastAdmin.body.processed = TotalCount - lastAdmin.body.total_remaining
             /\ lastAdmin.body.processed >= 0
             /\ lastAdmin.body.status =
                   (IF lastAdmin.body.total_remaining > 0 THEN "in_progress" ELSE "completed")

\* ======================================== repeated backfill: properties
\* C15: under repeated invocations, every product with a null embedding for
\* which the provider succeeds is eventually embedded, also when another
\* product with a null embedding fails on every attempt.
C15_NoStarvation ==
    \A i \in ProductIds \ Unembeddable :
        (products[i].embedding = NoEmbedding) ~> (products[i].embedding # NoEmbedding)

\* ================================================== CRUD: properties
\* C20: after a create or update of a product or category through the CRUD
\* layer has completed and the request's session is closed, the search vector
\* stored for the entity is the projection of its current source fields: not
\* null, and not derived from older values.
C20_SearchVectorNeverStale ==
    (crud.op \in {"create", "update"} /\ crud.outcome = "returned" /\ crud.closed) =>
        catalog[<<crud.model, crud.id>>].search_vector =
            Projection(crud.model, catalog[<<crud.model, crud.id>>].fields)

\* ============================================ search results: properties
\* the call's results were produced by the text strategy: its last statement
\* is a text statement that executed
ServedByText ==
    /\ lastSearch.route # "none" /\ ~lastSearch.response.raised
    /\ lastSearch.response.log # <<>>
    /\ lastSearch.response.log[Len(lastSearch.response.log)].strategy = "text"
    /\ lastSearch.response.log[Len(lastSearch.response.log)].ok
\* the row passes the filters and range filters of the call
PassesFilters(id) ==
    RequestModel = "Product" =>
        /\ \A c \in lastSearch.filters.category_id : ProductCategoryId(id) = c
        /\ \A b \in lastSearch.filters.brand : ProductBrand(id) = b
        /\ \A m \in lastSearch.range_filters.min : ProductPrice(id) >= m
        /\ \A m \in lastSearch.range_filters.max : ProductPrice(id) <= m
NonIncreasing(results) ==
    \A k \in 1..(Len(results) - 1) : results[k].relevance >= results[k + 1].relevance
NoDuplicates(results) ==
    \A j, k \in 1..Len(results) : results[j].id = results[k].id => j = k

\* C22: the result list of a text search with a non-empty query and limit L
\* has at most L entries, holds only rows of the table (each once) whose search
\* vector contains every query token and that pass every filter and range
\* filter of the call, and is ordered non-increasing by relevance.
C22_TextResultsBoundedMatchingSorted ==
    (ServedByText /\ lastSearch.q # <<>>) =>
        LET results == lastSearch.response.results
        IN /\ Len(results) <= lastSearch.limit
           /\ \A k \in 1..Len(results) :
                 /\ results[k].id \in Ids(RequestModel)
                 /\ \A j \in 1..Len(lastSearch.q) :
                       SearchVector(RequestModel, results[k].id)[lastSearch.q[j]] > 0
                 /\ PassesFilters(results[k].id)
           /\ NonIncreasing(results)
           /\ NoDuplicates(results)
C22_Witness ==
    /\ lastSearch.route = "products" /\ lastSearch.method = "text"
    /\ lastSearch.q = <<"red">> /\ lastSearch.limit = 2
    /\ lastSearch.filters = NoFilters /\ lastSearch.range_filters.max = {20}
    /\ lastSearch.response.status = 200
    /\ Len(lastSearch.response.results) = 2
    /\ lastSearch.response.results[1].id = 1 /\ lastSearch.response.results[2].id = 2
    /\ lastSearch.response.results[1].relevance > lastSearch.response.results[2].relevance

\* C23: a text search whose query has no token (empty, or whitespace only)
\* returns an empty result list and total 0, whatever the table holds and
\* whatever the limit and filters: it does not raise and returns no row. Stated
\* for a call whose text statement executes.
C23_EmptyQueryReturnsNothing ==
    (/\ lastSearch.route # "none" /\ lastSearch.q = <<>>
     /\ TextExecutions # <<>> /\ TextExecutions[Len(TextExecutions)].ok) =>
        /\ ~lastSearch.response.raised
        /\ lastSearch.response.results = <<>>
        /\ lastSearch.response.total = 0
        /\ IsSearchRoute => lastSearch.response.status = 200
C23_Witness ==
    /\ lastSearch.route = "products" /\ lastSearch.method = "text" /\ lastSearch.q = <<>>
    /\ lastSearch.limit = 2 /\ lastSearch.filters = NoFilters /\ lastSearch.range_filters = NoRange
    /\ lastSearch.response.status = 200 /\ lastSearch.response.results = <<>>
    /\ Cardinality(Ids("Product")) = NumProducts

\* the call's results were produced by the vector strategy
ServedByVector ==
    /\ lastSearch.route # "none" /\ ~lastSearch.response.raised
    /\ lastSearch.response.log # <<>>
    /\ lastSearch.response.log[Len(lastSearch.response.log)].strategy = "vector"
    /\ lastSearch.response.log[Len(lastSearch.response.log)].ok
\* no result is a product whose embedding is null
NoNullEmbeddingReturned ==
    \A k \in 1..Len(lastSearch.response.results) :
        products[lastSearch.response.results[k].id].embedding # NoEmbedding

\* C24 as stated: no product with a null embedding appears in the results
\* returned for a method=vector request made while vector search is enabled,
\* whatever the table holds and whatever the embedding provider does.
C24_VectorRequestNeverReturnsNull ==
    (/\ lastSearch.route = "products" /\ lastSearch.method = "vector" /\ lastSearch.enabled
     /\ lastSearch.response.status = 200) =>
        NoNullEmbeddingReturned

\* C24 amended: a method=vector request made while vector search is enabled
\* is answered either by the vector strategy, and then no result has a null
\* embedding, or, when the vector strategy raised, by the text fallback, whose
\* results are the text strategy's whatever the embeddings are.
C24_VectorStrategyNeverReturnsNull ==
    (/\ lastSearch.route = "products" /\ lastSearch.method = "vector" /\ lastSearch.enabled
     /\ lastSearch.response.status = 200) =>
        IF VectorStrategyFailed
        THEN ServedByText /\ lastSearch.response.results = OwnTextResults
        ELSE /\ ServedByVector /\ Len(lastSearch.response.log) = 1
             /\ NoNullEmbeddingReturned
C24_Witness ==
    /\ lastSearch.route = "products" /\ lastSearch.method = "vector" /\ lastSearch.enabled
    /\ ServedByVector /\ lastSearch.filters = NoFilters /\ lastSearch.range_filters = NoRange
    /\ lastSearch.limit = 2 /\ Len(lastSearch.response.results) = 1
    /\ Cardinality(WithoutEmbedding) = 2

\* the vector or the hybrid strategy runs: the route hands on the method
StrategyWithEmbeddingRuns ==
    /\ lastSearch.route # "none" /\ lastSearch.method \in {"vector", "hybrid"}
    /\ lastSearch.enabled

\* C27 as stated: a search request makes at most one provider call: exactly
\* one, with the query string as given, when the vector or hybrid strategy
\* runs, and none when the text strategy runs, also as a fallback.
C27_ExactlyOneProviderCall ==
    lastSearch.route # "none" =>
        /\ Len(lastSearch.response.embed) <= 1
        /\ StrategyWithEmbeddingRuns =>
              /\ Len(lastSearch.response.embed) = 1
              /\ lastSearch.response.embed[1].text = lastSearch.q
        /\ ~StrategyWithEmbeddingRuns => lastSearch.response.embed = <<>>

\* C27 amended: at most one provider call per request; exactly one, with the
\* query string as given, when the vector or hybrid strategy runs and an API
\* key is configured; none when no key is configured (the strategy raises
\* before calling) and none when only the text strategy runs. A text fallback
\* adds no call: the calls are made before any statement is executed.
C27_AtMostOneProviderCall ==
    lastSearch.route # "none" =>
        /\ Len(lastSearch.response.embed) <= 1
        /\ (StrategyWithEmbeddingRuns /\ OPENAI_API_KEY # NoKey) =>
              /\ Len(lastSearch.response.embed) = 1
              /\ lastSearch.response.embed[1].text = lastSearch.q
        /\ (~StrategyWithEmbeddingRuns \/ OPENAI_API_KEY = NoKey) =>
              lastSearch.response.embed = <<>>
C27_Witness ==
    /\ lastSearch.route = "products" /\ lastSearch.method = "hybrid" /\ lastSearch.enabled
    /\ lastSearch.q = <<"red", "dress">>
    /\ lastSearch.response.embed = <<[text |-> <<"red", "dress">>, ok |-> FALSE]>>
    /\ Len(lastSearch.response.log) = 2
    /\ lastSearch.response.log[1].strategy = "text" /\ ~lastSearch.response.log[1].ok
    /\ lastSearch.response.log[2].strategy = "text" /\ lastSearch.response.log[2].ok
    /\ lastSearch.response.status = 200

\* C28: a search call (either route or hybrid_search, any method, any
\* outcome: answered, answered by a fallback, or ended with an error) writes
\* nothing: the product table and its embeddings, the search vectors, the
\* vector-search flag, the API key, the hybrid weights and the backfill tasks
\* are the same after the call as before, and so is everything when the call's
\* session is closed. What another search call reads is therefore what it
\* would have read without this one.
C28_SearchWritesNothing ==
    [][lastSearch' # lastSearch =>
          /\ products' = products /\ catalog' = catalog
          /\ VECTOR_SEARCH_ENABLED' = VECTOR_SEARCH_ENABLED
          /\ OPENAI_API_KEY' = OPENAI_API_KEY
          /\ settings' = settings
          /\ task' = task /\ crud' = crud /\ lastAdmin' = lastAdmin]_vars
C28_Witness ==
    /\ lastSearch.route = "products" /\ lastSearch.method = "hybrid" /\ lastSearch.enabled
    /\ lastSearch.response.status = 500
    /\ Len(lastSearch.response.embed) = 1 /\ lastSearch.response.embed[1].ok
    /\ Len(lastSearch.response.log) = 3
    /\ WithoutEmbedding # {} /\ WithoutEmbedding # ProductIds

\* ============================================== configuration: properties
\* C26: for every configured pair of non-negative hybrid weights,
\* Settings.initialize completes and leaves weights that sum to 1.0 and keep
\* the configured ratio (0.3/0.3 becomes 0.5/0.5); a pair that already sums to
\* 1.0 is left unchanged.
C26_InitializeNormalizesWeights ==
    [][settings' # settings =>
          /\ settings'.state = "initialized"
          /\ IsOne(Plus(settings'.hybrid_search_text_weight,
                        settings'.hybrid_search_vector_weight))
          /\ settings'.hybrid_search_text_weight.num * settings.hybrid_search_vector_weight.num
               = settings'.hybrid_search_vector_weight.num * settings.hybrid_search_text_weight.num
          /\ IsOne(Plus(settings.hybrid_search_text_weight,
                        settings.hybrid_search_vector_weight)) =>
                /\ settings'.hybrid_search_text_weight = settings.hybrid_search_text_weight
                /\ settings'.hybrid_search_vector_weight = settings.hybrid_search_vector_weight]_vars

\* the call's results were produced by the hybrid statement
ServedByHybrid ==
    /\ lastSearch.route # "none" /\ ~lastSearch.response.raised
    /\ lastSearch.response.log # <<>>
    /\ lastSearch.response.log[Len(lastSearch.response.log)].strategy = "hybrid"
    /\ lastSearch.response.log[Len(lastSearch.response.log)].ok

\* C25: every entity returned by a hybrid request that did not fall back to
\* text has relevance TEXT_WEIGHT * ts_rank + VECTOR_WEIGHT * (1 - cosine
\* distance to the query embedding), with the configured, normalized weights
\* of the deployment. (Relevance is in thousandths, the two scores in
\* hundredths.)
C25_HybridUsesConfiguredWeights ==
    (lastSearch.method = "hybrid" /\ ServedByHybrid) =>
        \E query_embedding \in Vectors :
            \A k \in 1..Len(lastSearch.response.results) :
                LET r == lastSearch.response.results[k]
                IN r.relevance * TEXT_WEIGHT.den * VECTOR_WEIGHT.den =
                     10 * (TEXT_WEIGHT.num * VECTOR_WEIGHT.den
                             * TsRank(ProductSearchVector(r.id), lastSearch.q)
                           + VECTOR_WEIGHT.num * TEXT_WEIGHT.den
                             * Similarity(products[r.id].embedding, query_embedding))

\* ======================================= search configuration: properties
\* C30: through any sequence of enable-vector-search, backfill and status
\* calls (and the steps of a backfill task), the vector-search flag never goes
\* from true to false, it becomes true only by an enable call, and the API key
\* changes only in an enable call and only to a non-empty key: a configured
\* key is never cleared.
C30_FlagMonotoneKeyNeverCleared ==
    [][/\ VECTOR_SEARCH_ENABLED => VECTOR_SEARCH_ENABLED'
       /\ VECTOR_SEARCH_ENABLED' # VECTOR_SEARCH_ENABLED =>
             lastAdmin'.call = "enable" /\ lastAdmin' # lastAdmin
       /\ OPENAI_API_KEY # NoKey => OPENAI_API_KEY' # NoKey
       /\ OPENAI_API_KEY' # OPENAI_API_KEY =>
             /\ lastAdmin'.call = "enable" /\ lastAdmin' # lastAdmin
             /\ OPENAI_API_KEY' \in Keys]_vars
C30_Witness ==
    /\ lastAdmin.call = "enable" /\ lastAdmin.status = 200
    /\ VECTOR_SEARCH_ENABLED /\ OPENAI_API_KEY \in Keys
    /\ task[1].pc = "done" /\ task[1].processed_count >= 1

\* ============================================ batch accounting: properties
IsSkip(e) == e.ev = "read" /\ e.seen \in {"missing", "set"}
IsCommittedWrite(e) == e.ev = "write" /\ e.ok
\* how many events of task t about product id satisfy Test
CountFor(t, id, Test(_)) ==
    Cardinality({k \in 1..Len(t.events) : t.events[k].id = id /\ Test(t.events[k])})
IsProviderCall(e) == e.ev = "embed" /\ e.seen = "called"
IsWrite(e) == e.ev = "write"

\* C29: within an invocation of process_embeddings_batch the scan fetches at
\* most batch_size ids; when the invocation has ended, processed_count +
\* error_count + the number of products skipped as missing or already embedded
\* equals the number of ids fetched; a product gets at most one provider call
\* and at most one write; processed_count is the number of committed writes:
\* it grows by one exactly in the step that commits the UPDATE of the current
\* product, which stores the vector held for it if the row still exists.
C29_BatchAccounting ==
    /\ [](\A w \in Workers :
            /\ Len(task[w].product_ids) <= task[w].batch_size
            /\ task[w].pc = "done" =>
                  task[w].processed_count + task[w].error_count
                    + Len(EventsOf(task[w], IsSkip)) = Len(task[w].product_ids)
            /\ task[w].processed_count = Len(EventsOf(task[w], IsCommittedWrite))
            /\ \A id \in ProductIds :
                  /\ CountFor(task[w], id, IsProviderCall) <= 1
                  /\ CountFor(task[w], id, IsWrite) <= 1)
    /\ [][\A w \in Workers :
            task'[w].processed_count = task[w].processed_count + 1 =>
                /\ task[w].pc = "update"
                /\ task'[w].events =
                      Append(task[w].events, Event("write", CurrentId(task[w]), "", TRUE))
                /\ products[CurrentId(task[w])].present =>
                      products'[CurrentId(task[w])].embedding = task[w].embedding]_vars
C29_Witness ==
    /\ task[1].pc = "done" /\ task[1].batch_size = 2 /\ Len(task[1].product_ids) = 2
    /\ task[1].processed_count = 1 /\ task[1].error_count = 0
    /\ Len(task[1].events) = 4
    /\ task[1].events[1] = Event("read", task[1].product_ids[1], "missing", TRUE)
    /\ task[2].pc = "idle"

\* ================================== updates during a backfill: properties
\* C21: an update of a product through the CRUD layer, whatever source
\* fields it changes and whether it succeeds or not, leaves the embedding of
\* every product as it was; an embedding changes only by the write of a
\* backfill invocation, for a product that the invocation's re-read saw with
\* a null embedding, and every provider call and write of an invocation is for
\* such a product.
C21_UpdateLeavesEmbedding ==
    /\ [](\A k \in 1..Len(task[1].events) :
            task[1].events[k].ev \in {"embed", "write"} =>
                \E j \in 1..(k - 1) :
                    task[1].events[j] = Event("read", task[1].events[k].id, "null", TRUE))
    /\ [][/\ crud' # crud => products' = products
          /\ \A id \in ProductIds :
                products'[id].embedding # products[id].embedding =>
                    /\ crud' = crud /\ catalog' = catalog
                    /\ HoldsProviderVector(task[1], id)
                    /\ products'[id].embedding = task[1].embedding
                    /\ \E j \in 1..Len(task[1].events) :
                          task[1].events[j] = Event("read", id, "null", TRUE)]_vars
C21_Witness ==
    /\ crud.op = "update" /\ crud.id = UpdatedProduct /\ crud.outcome = "returned"
    /\ catalog[<<"Product", UpdatedProduct>>].fields.title = {<<"the", "shoe">>}
    /\ products[UpdatedProduct].embedding = "v2"
    /\ task[1].pc = "done"

====
